---- MODULE Spec2Model ----
(***************************************************************************)
(* Rotated planar XY / XZZXdY codes, their Pauli operators, the sample     *)
(* recovery of the RMPS decoder and the tensor network it builds.          *)
(*                                                                         *)
(* A Pauli operator is kept in binary symplectic form: an X bit and a Z    *)
(* bit per site (Y has both set); composing a single-site Pauli into a     *)
(* site is XOR of the bit pairs.                                           *)
(***************************************************************************)
EXTENDS Integers, Sequences, FiniteSets, TLC

VARIABLES pc, code, arg, error, pauli, prev, last, syndrome, calls, prob_dist, tn,
          decoder, cache, call, ret, ncalls

\* The decoder object, the lru_cache of each memoised TNC method, the last
\* TNC call with its return value, and the number of calls made.
tnc_vars == <<decoder, cache, call, ret, ncalls>>

vars == <<pc, code, arg, error, pauli, prev, last, syndrome, calls, prob_dist, tn, tnc_vars>>

\* Smallest lattice size accepted by the code constructors (self.MIN_SIZE[0]).
MIN_SIZE == 3

\* Distances explored: the odd d with MIN_SIZE <= d <= 2*MaxHalf + 1.
MaxHalf == 2
\* Largest number of non-identity sites of a bsf handed to new_pauli.
MaxWeight == 1
\* Largest number of flagged plaquettes of a syndrome handed to sample_recovery.
MaxFlagged == 2
\* Largest number of flagged plaquettes of a syndrome whose sample recovery is
\* turned into a tensor network.
MaxFlaggedTN == 1

\* Largest magnitude of an integer chi handed to the decoder constructor.
MaxChi == 2
\* Entries an lru_cache holds before it evicts the least recently used one
\* (functools keeps 128; the caches here are scaled down with the arguments).
MaxCacheSize == 2
\* Largest number of TNC method calls made on one decoder.
MaxCalls == 3

Distances == {d \in MIN_SIZE..(2 * MaxHalf + 1) : d % 2 = 1}

Variants == {"XY", "XZZXdY"}

NoCode == [variant |-> "none", size |-> <<0, 0>>]
NoPauli == [xs |-> <<>>, zs |-> <<>>]
NoIndex == <<>>
NoArg == [type |-> "none", value |-> 0, variant |-> "none"]

(***************************************************************************)
(* Lattice: bounds and plaquette types of the rotated planar code.         *)
(***************************************************************************)

\* (max_site_x, max_site_y) of a code of size (rows, columns).
site_bounds(c) == <<c.size[2] - 1, c.size[1] - 1>>

is_in_site_bounds(c, index) ==
    /\ 0 <= index[1] /\ index[1] <= site_bounds(c)[1]
    /\ 0 <= index[2] /\ index[2] <= site_bounds(c)[2]

is_x_plaquette(index) == (index[1] + index[2]) % 2 = 1

is_z_plaquette(index) == ~is_x_plaquette(index)

\* XY code: the plaquettes that are not X-type are Y-type.
is_y_plaquette(index) == ~is_x_plaquette(index)

\* An X-type plaquette on the upper or lower boundary, or a Z-type (Y-type)
\* plaquette on the left or right boundary, is not part of the lattice.
is_virtual_plaquette(c, index) ==
    LET x == index[1]
        y == index[2]
        max_site_x == site_bounds(c)[1]
        max_site_y == site_bounds(c)[2]
    IN  \/ (y > max_site_y - 1 \/ y < 0) /\ is_x_plaquette(index)
        \/ (x > max_site_x - 1 \/ x < 0) /\ is_z_plaquette(index)

is_in_plaquette_bounds(c, index) ==
    /\ 0 - 1 <= index[1] /\ index[1] <= site_bounds(c)[1]
    /\ 0 - 1 <= index[2] /\ index[2] <= site_bounds(c)[2]
    /\ ~is_virtual_plaquette(c, index)

Sites(c) == (0..site_bounds(c)[1]) \X (0..site_bounds(c)[2])

\* Every plaquette index of the bounding box iterated by create_tn.
BoxIndices(c) == ((0 - 1)..site_bounds(c)[1]) \X ((0 - 1)..site_bounds(c)[2])

InBoundsPlaquettes(c) == {p \in BoxIndices(c) : is_in_plaquette_bounds(c, p)}

(***************************************************************************)
(* Code construction.                                                      *)
(***************************************************************************)

\* operator.index(distance): the integer, or a TypeError for a value that is
\* no integer (a float, a string, None).
operator_index(distance) ==
    IF distance.type = "int" THEN [raised |-> "none", value |-> distance.value]
    ELSE [raised |-> "TypeError", value |-> 0]

\* The guard both constructors share, then super().__init__(distance, distance).
CodeInit(variant, distance) ==
    LET i == operator_index(distance)
    IN  IF i.raised = "TypeError" THEN [raised |-> "TypeError", code |-> NoCode]
        ELSE IF i.value < MIN_SIZE THEN [raised |-> "ValueError", code |-> NoCode]
        ELSE IF distance.value % 2 = 0 THEN [raised |-> "ValueError", code |-> NoCode]
        ELSE [raised |-> "none",
              code |-> [variant |-> variant, size |-> <<distance.value, distance.value>>]]

\* The same guard without the parity test.
XY_init_no_parity(distance) ==
    LET i == operator_index(distance)
    IN  IF i.raised = "TypeError" THEN [raised |-> "TypeError", code |-> NoCode]
        ELSE IF i.value < MIN_SIZE THEN [raised |-> "ValueError", code |-> NoCode]
        ELSE [raised |-> "none",
              code |-> [variant |-> "XY", size |-> <<distance.value, distance.value>>]]

XY_init(distance) == CodeInit("XY", distance)

XZZXdY_init(distance) == CodeInit("XZZXdY", distance)

NewCode(variant, d) == [variant |-> variant, size |-> <<d, d>>]

(***************************************************************************)
(* Pauli operators.                                                        *)
(***************************************************************************)

Identity(c) == [xs |-> [i \in Sites(c) |-> 0], zs |-> [i \in Sites(c) |-> 0]]

\* Single-site Pauli of P at an in-bounds site.
operator(P, index) ==
    IF P.xs[index] = 1
    THEN (IF P.zs[index] = 1 THEN "Y" ELSE "X")
    ELSE (IF P.zs[index] = 1 THEN "Z" ELSE "I")

\* site(operator, *indices): compose the single-site Pauli into every index
\* that is in site bounds; the others are skipped.
RECURSIVE site(_, _, _, _)
site(c, P, op, indices) ==
    IF indices = <<>> THEN P
    ELSE LET index == Head(indices)
             Q == IF is_in_site_bounds(c, index)
                  THEN [xs |-> [P.xs EXCEPT ![index] =
                                   IF op \in {"X", "Y"} THEN 1 - @ ELSE @],
                        zs |-> [P.zs EXCEPT ![index] =
                                   IF op \in {"Z", "Y"} THEN 1 - @ ELSE @]]
                  ELSE P
         IN  site(c, Q, op, Tail(indices))

\* ((x, y) for x in range(start, stop, step)), as a sequence.
RECURSIVE RangeX(_, _, _, _)
RangeX(start, stop, step, y) ==
    IF start >= stop THEN <<>>
    ELSE <<(<<start, y>>)>> \o RangeX(start + step, stop, step, y)

\* ((x, y) for y in range(start, stop, step)), as a sequence.
RECURSIVE RangeY(_, _, _, _)
RangeY(start, stop, step, x) ==
    IF start >= stop THEN <<>>
    ELSE <<(<<x, start>>)>> \o RangeY(start + step, stop, step, x)

\* XZZXdY plaquette with the bounds test removed.
XZZXdY_plaquette_unguarded(c, P, index) ==
    LET x == index[1]
        y == index[2]
    IN  site(c, site(c, site(c, site(c, P, "Z", <<(<<x, y>>)>>),
                                "X", <<(<<x, y + 1>>)>>),
                        "Z", <<(<<x + 1, y + 1>>)>>),
                "X", <<(<<x + 1, y>>)>>)

\* XZZXdY plaquette testing the diagonal with y' = max_site_y - y.
XZZXdY_plaquette_shifted(c, P, index) ==
    LET x == index[1]
        y == index[2]
        max_site_y == site_bounds(c)[2]
        x_prim == x
        y_prim == max_site_y - y
        sw == IF y_prim + 1 = x_prim THEN "Y" ELSE "Z"
        ne == IF y_prim + 1 # x_prim /\ y_prim - 1 = x_prim THEN "Y" ELSE "Z"
    IN  IF is_in_plaquette_bounds(c, index)
        THEN site(c, site(c, site(c, site(c, P, sw, <<(<<x, y>>)>>),
                                     "X", <<(<<x, y + 1>>)>>),
                             ne, <<(<<x + 1, y + 1>>)>>),
                     "X", <<(<<x + 1, y>>)>>)
        ELSE P

\* XZZXdY plaquette promoting only the SW corner to Y, never the NE corner.
XZZXdY_plaquette_sw_only(c, P, index) ==
    LET x == index[1]
        y == index[2]
        y_prim == (site_bounds(c)[2] - 1) - y
        sw == IF y_prim + 1 = x THEN "Y" ELSE "Z"
    IN  IF is_in_plaquette_bounds(c, index)
        THEN site(c, site(c, site(c, site(c, P, sw, <<(<<x, y>>)>>),
                                     "X", <<(<<x, y + 1>>)>>),
                             "Z", <<(<<x + 1, y + 1>>)>>),
                     "X", <<(<<x + 1, y>>)>>)
        ELSE P

XZZXdY_plaquette(c, P, index) ==
    LET x == index[1]
        y == index[2]
        max_site_y == site_bounds(c)[2]
        x_prim == x
        y_prim == (max_site_y - 1) - y
    IN  IF is_in_plaquette_bounds(c, index)
        THEN IF y_prim + 1 = x_prim
             THEN site(c, site(c, site(c, site(c, P, "Y", <<(<<x, y>>)>>),
                                          "X", <<(<<x, y + 1>>)>>),
                                  "Z", <<(<<x + 1, y + 1>>)>>),
                          "X", <<(<<x + 1, y>>)>>)
             ELSE IF y_prim - 1 = x_prim
             THEN site(c, site(c, site(c, site(c, P, "Z", <<(<<x, y>>)>>),
                                          "X", <<(<<x, y + 1>>)>>),
                                  "Y", <<(<<x + 1, y + 1>>)>>),
                          "X", <<(<<x + 1, y>>)>>)
             ELSE site(c, site(c, site(c, site(c, P, "Z", <<(<<x, y>>)>>),
                                          "X", <<(<<x, y + 1>>)>>),
                                  "Z", <<(<<x + 1, y + 1>>)>>),
                          "X", <<(<<x + 1, y>>)>>)
        ELSE P

\* The XY plaquette with the two operators exchanged.
XY_plaquette_swapped(c, P, index) ==
    LET x == index[1]
        y == index[2]
    IN  IF is_in_plaquette_bounds(c, index)
        THEN IF (y + x) % 2 = 0
             THEN site(c, P, "X", <<(<<x, y>>), (<<x, y + 1>>), (<<x + 1, y + 1>>), (<<x + 1, y>>)>>)
             ELSE site(c, P, "Y", <<(<<x, y>>), (<<x, y + 1>>), (<<x + 1, y + 1>>), (<<x + 1, y>>)>>)
        ELSE P

\* The XY plaquette applied only when all four corners are sites.
XY_plaquette_interior(c, P, index) ==
    LET x == index[1]
        y == index[2]
        corners == <<(<<x, y>>), (<<x, y + 1>>), (<<x + 1, y + 1>>), (<<x + 1, y>>)>>
    IN  IF is_in_plaquette_bounds(c, index) /\ \A k \in 1..4 : is_in_site_bounds(c, corners[k])
        THEN site(c, P, IF (y + x) % 2 = 0 THEN "Y" ELSE "X", corners)
        ELSE P

XY_plaquette(c, P, index) ==
    LET x == index[1]
        y == index[2]
    IN  IF is_in_plaquette_bounds(c, index)
        THEN IF (y + x) % 2 = 0
             THEN site(c, site(c, site(c, site(c, P, "Y", <<(<<x, y>>)>>),
                                          "Y", <<(<<x, y + 1>>)>>),
                                  "Y", <<(<<x + 1, y + 1>>)>>),
                          "Y", <<(<<x + 1, y>>)>>)
             ELSE site(c, site(c, site(c, site(c, P, "X", <<(<<x, y>>)>>),
                                          "X", <<(<<x, y + 1>>)>>),
                                  "X", <<(<<x + 1, y + 1>>)>>),
                          "X", <<(<<x + 1, y>>)>>)
        ELSE P

XZZXdY_logical_x(c, P) ==
    LET max_site_x == site_bounds(c)[1]
    IN  site(c, site(c, P, "X", RangeX(0, max_site_x + 1, 2, 0)),
             "Z", RangeX(1, max_site_x + 1, 2, 0))

XZZXdY_logical_y(c, P) ==
    LET max_site_x == site_bounds(c)[1]
        max_site_y == site_bounds(c)[2]
    IN  site(c, site(c, site(c, P, "Y", <<(<<max_site_x, 0>>)>>),
                     "Z", RangeY(2, max_site_y + 1, 2, max_site_x)),
             "X", RangeY(1, max_site_y + 1, 2, max_site_x))

\* RotatedPlanarXZZXdYPauli defines no logical_z: the call runs the method
\* of its base class RotatedPlanarPauli, a row of Z along the bottom row.
XZZXdY_logical_z(c, P) ==
    LET max_site_x == site_bounds(c)[1]
    IN  site(c, P, "Z", RangeX(0, max_site_x + 1, 1, 0))

XY_logical_x(c, P) ==
    LET max_site_x == site_bounds(c)[1]
    IN  site(c, P, "X", RangeX(0, max_site_x + 1, 1, 0))

XY_logical_y(c, P) ==
    LET max_site_x == site_bounds(c)[1]
        max_site_y == site_bounds(c)[2]
    IN  site(c, P, "Y", RangeY(0, max_site_y + 1, 1, max_site_x))

XY_logical_z(c, P) ==
    LET max_site_x == site_bounds(c)[1]
        max_site_y == site_bounds(c)[2]
    IN  site(c, site(c, P, "X", RangeX(0, max_site_x + 1, 1, 0)),
             "Y", RangeY(0, max_site_y + 1, 1, max_site_x))

\* Method dispatch on the class of the operator's code.
plaquette(c, P, index) ==
    IF c.variant = "XY" THEN XY_plaquette(c, P, index)
    ELSE XZZXdY_plaquette(c, P, index)

logical_x(c, P) ==
    IF c.variant = "XY" THEN XY_logical_x(c, P) ELSE XZZXdY_logical_x(c, P)

logical_y(c, P) ==
    IF c.variant = "XY" THEN XY_logical_y(c, P) ELSE XZZXdY_logical_y(c, P)

logical_z(c, P) ==
    IF c.variant = "XY" THEN XY_logical_z(c, P) ELSE XZZXdY_logical_z(c, P)

\* Operators with at most w non-identity sites: the bsf values handed to
\* new_pauli.
RECURSIVE PaulisUpTo(_, _)
PaulisUpTo(c, w) ==
    IF w = 0 THEN {Identity(c)}
    ELSE LET S == PaulisUpTo(c, w - 1)
         IN  S \cup {site(c, P, op, <<i>>) :
                        P \in S, op \in {"X", "Y", "Z"}, i \in Sites(c)}

\* new_pauli(bsf): the operator is a view of the given bsf.
new_pauli(c, bsf) == bsf

(***************************************************************************)
(* Syndromes and the sample recovery of the decoder.                       *)
(***************************************************************************)

\* Position of a plaquette in the code's list of plaquette indices: the
\* Z-type plaquettes first, then the X-type ones, each by y and then by x.
PlaquetteKey(c, p) ==
    LET k == site_bounds(c)[1] + 3
    IN  (IF is_z_plaquette(p) THEN 0 ELSE 1) * k * k + (p[2] + 1) * k + (p[1] + 1)

RECURSIVE SortByKey(_, _)
SortByKey(c, S) ==
    IF S = {} THEN <<>>
    ELSE LET m == CHOOSE p \in S : \A q \in S : PlaquetteKey(c, p) <= PlaquetteKey(c, q)
         IN  <<m>> \o SortByKey(c, S \ {m})

Codes == {NewCode(v, d) : v \in Variants, d \in Distances}

\* The ordered plaquette indices of each code, computed once.
PlaquetteIndexTable == [c \in Codes |-> SortByKey(c, InBoundsPlaquettes(c))]

plaquette_indices(c) == PlaquetteIndexTable[c]

\* code.stabilizers: the plaquette operator of every plaquette index, in order.
StabilizerTable ==
    [c \in Codes |->
        [k \in 1..Len(PlaquetteIndexTable[c]) |->
            plaquette(c, Identity(c), PlaquetteIndexTable[c][k])]]

stabilizers(c) == StabilizerTable[c]

\* Binary symplectic product: 1 when the two operators anticommute.
bsp(P, Q) ==
    Cardinality({i \in DOMAIN P.xs :
                    (P.xs[i] * Q.zs[i] + P.zs[i] * Q.xs[i]) % 2 = 1}) % 2

\* The syndrome of an operator: one bit per stabilizer, in order.
Syndrome(c, P) == [k \in 1..Len(stabilizers(c)) |-> bsp(P, stabilizers(c)[k])]

syndrome_to_plaquette_indices(c, s) ==
    {plaquette_indices(c)[k] : k \in {j \in 1..Len(s) : s[j] # 0}}

\* The tie-break with the two parities exchanged.
joins_lower_left_swapped(plaq_x, plaq_y) ==
    \/ plaq_x < plaq_y /\ (plaq_x - plaq_y) % 2 = 1
    \/ plaq_x > plaq_y /\ (plaq_x - plaq_y) % 2 = 0

\* The tie-break sending the plaquettes of the main diagonal to the
\* lower-left boundary too.
joins_lower_left_diagonal(plaq_x, plaq_y) ==
    \/ plaq_x <= plaq_y /\ (plaq_x - plaq_y) % 2 = 0
    \/ plaq_x > plaq_y /\ (plaq_x - plaq_y) % 2 = 1

\* Upper-left even diagonals or lower-right odd diagonals.
joins_lower_left(plaq_x, plaq_y) ==
    \/ plaq_x < plaq_y /\ (plaq_x - plaq_y) % 2 = 0
    \/ plaq_x > plaq_y /\ (plaq_x - plaq_y) % 2 = 1

\* while site_x >= 0 and site_y >= 0: X on the site, step down-left.
RECURSIVE JoinLowerLeft(_, _, _, _)
JoinLowerLeft(c, P, site_x, site_y) ==
    IF site_x >= 0 /\ site_y >= 0
    THEN JoinLowerLeft(c, site(c, P, "X", <<(<<site_x, site_y>>)>>), site_x - 1, site_y - 1)
    ELSE P

\* The upper-right loop stopping one site short of the boundary.
RECURSIVE JoinUpperRight_short(_, _, _, _)
JoinUpperRight_short(c, P, site_x, site_y) ==
    IF site_x < site_bounds(c)[1] /\ site_y < site_bounds(c)[2]
    THEN JoinUpperRight_short(c, site(c, P, "X", <<(<<site_x, site_y>>)>>),
                              site_x + 1, site_y + 1)
    ELSE P

\* while site_x <= max_site_x and site_y <= max_site_y: X on the site, step
\* up-right.
RECURSIVE JoinUpperRight(_, _, _, _)
JoinUpperRight(c, P, site_x, site_y) ==
    IF site_x <= site_bounds(c)[1] /\ site_y <= site_bounds(c)[2]
    THEN JoinUpperRight(c, site(c, P, "X", <<(<<site_x, site_y>>)>>),
                        site_x + 1, site_y + 1)
    ELSE P

\* The loop over the flagged plaquettes.  The indices come as a set; the
\* paths compose by XOR, so the order of iteration does not show.
RECURSIVE RecoveryLoop(_, _, _)
RecoveryLoop(c, P, indices) ==
    IF indices = {} THEN P
    ELSE LET plaq_index == CHOOSE p \in indices : TRUE
             plaq_x == plaq_index[1]
             plaq_y == plaq_index[2]
             Q == IF joins_lower_left(plaq_x, plaq_y)
                  THEN JoinLowerLeft(c, P, plaq_x, plaq_y)
                  ELSE JoinUpperRight(c, P, plaq_x + 1, plaq_y + 1)
         IN  RecoveryLoop(c, Q, indices \ {plaq_index})

sample_recovery(c, s) ==
    RecoveryLoop(c, new_pauli(c, Identity(c)), syndrome_to_plaquette_indices(c, s))

\* Subsets of S with at most k elements.
RECURSIVE SubsetsUpTo(_, _)
SubsetsUpTo(S, k) ==
    IF k = 0 THEN {{}}
    ELSE LET T == SubsetsUpTo(S, k - 1)
         IN  T \cup {A \cup {x} : A \in T, x \in S}

\* Syndrome bit-vectors of a code with at most MaxFlagged bits set.
Syndromes(c) ==
    LET n == Len(plaquette_indices(c))
    IN  {[k \in 1..n |-> IF k \in A THEN 1 ELSE 0] : A \in SubsetsUpTo(1..n, MaxFlagged)}

(***************************************************************************)
(* Tensor network creator (TNC).                                           *)
(*                                                                         *)
(* A node of the network is kept as the arguments of the memoised call     *)
(* that made it (kind, prob_dist, local Pauli, compass direction); its     *)
(* tensor is what create_h_node / create_v_node / create_d_node /          *)
(* create_s_node return for those arguments.  Probabilities are integer    *)
(* weights over a common denominator.                                      *)
(***************************************************************************)

paulis == <<"I", "X", "Y", "Z">>

pauli_to_bsf(f) ==
    [x |-> IF f \in {"X", "Y"} THEN 1 ELSE 0, z |-> IF f \in {"Z", "Y"} THEN 1 ELSE 0]

bsf_to_pauli(b) ==
    IF b.x = 1 THEN (IF b.z = 1 THEN "Y" ELSE "X") ELSE (IF b.z = 1 THEN "Z" ELSE "I")

\* The probabilities zipped to the Paulis in reverse order.
op_to_pr_reversed(pd, op) == pd[5 - (CHOOSE k \in 1..4 : paulis[k] = op)]

\* dict(zip(paulis, prob_dist))[op]
op_to_pr(pd, op) == pd[CHOOSE k \in 1..4 : paulis[k] = op]

\* The element value with Z on all four bonds.
h_node_value_all_z(pd, f, n, e, s, w) ==
    LET fb == pauli_to_bsf(f)
        Z == pauli_to_bsf("Z")
        op == [x |-> (fb.x + n * Z.x + e * Z.x + s * Z.x + w * Z.x) % 2,
               z |-> (fb.z + n * Z.z + e * Z.z + s * Z.z + w * Z.z) % 2]
    IN  op_to_pr(pd, bsf_to_pauli(op))

h_node_value(pd, f, n, e, s, w) ==
    LET fb == pauli_to_bsf(f)
        X == pauli_to_bsf("X")
        Z == pauli_to_bsf("Z")
        op == [x |-> (fb.x + n * Z.x + e * X.x + s * Z.x + w * X.x) % 2,
               z |-> (fb.z + n * Z.z + e * X.z + s * Z.z + w * X.z) % 2]
    IN  op_to_pr(pd, bsf_to_pauli(op))

v_node_value(pd, f, n, e, s, w) == h_node_value(pd, f, n, e, s, w)

\* The d-node value without the Y on the n and s bonds.
d_node_value_unpromoted(pd, f, n, e, s, w) ==
    LET fb == pauli_to_bsf(f)
        X == pauli_to_bsf("X")
        Z == pauli_to_bsf("Z")
        op == [x |-> (fb.x + n * Z.x + e * X.x + s * Z.x + w * X.x) % 2,
               z |-> (fb.z + n * Z.z + e * X.z + s * Z.z + w * X.z) % 2]
    IN  op_to_pr(pd, bsf_to_pauli(op))

d_node_value(pd, f, n, e, s, w) ==
    LET fb == pauli_to_bsf(f)
        X == pauli_to_bsf("X")
        Y == pauli_to_bsf("Y")
        op == [x |-> (fb.x + n * Y.x + e * X.x + s * Y.x + w * X.x) % 2,
               z |-> (fb.z + n * Y.z + e * X.z + s * Y.z + w * X.z) % 2]
    IN  op_to_pr(pd, bsf_to_pauli(op))

\* _shape of create_h_node and of create_d_node (the same table).
h_shape(dir) ==
    CASE dir = "n" -> <<2, 2, 2, 1>>
      [] dir = "ne" -> <<1, 2, 2, 1>>
      [] dir = "e" -> <<1, 2, 2, 2>>
      [] dir = "se" -> <<1, 1, 2, 2>>
      [] dir = "s" -> <<2, 1, 2, 2>>
      [] dir = "sw" -> <<2, 1, 1, 2>>
      [] dir = "w" -> <<2, 2, 1, 2>>
      [] dir = "nw" -> <<2, 2, 1, 1>>
      [] OTHER -> <<2, 2, 2, 2>>

d_shape(dir) == h_shape(dir)

v_shape(dir) ==
    CASE dir = "n" -> <<1, 2, 2, 2>>
      [] dir = "ne" -> <<1, 1, 2, 2>>
      [] dir = "e" -> <<2, 1, 2, 2>>
      [] dir = "se" -> <<2, 1, 1, 2>>
      [] dir = "s" -> <<2, 2, 1, 2>>
      [] dir = "w" -> <<2, 2, 2, 1>>
      [] dir = "nw" -> <<1, 2, 2, 1>>
      [] OTHER -> <<2, 2, 2, 2>>

s_shape(dir) ==
    CASE dir = "n" -> <<1, 2, 2, 1>>
      [] dir = "e" -> <<1, 1, 2, 2>>
      [] dir = "s" -> <<2, 1, 1, 2>>
      [] dir = "w" -> <<2, 2, 1, 1>>
      [] OTHER -> <<2, 2, 2, 2>>

\* np.ndindex(shape)
NdIndex(shape) ==
    (0..(shape[1] - 1)) \X (0..(shape[2] - 1)) \X (0..(shape[3] - 1)) \X (0..(shape[4] - 1))

create_h_node(pd, f, dir) ==
    [shape |-> h_shape(dir),
     val |-> [i \in NdIndex(h_shape(dir)) |-> h_node_value(pd, f, i[1], i[2], i[3], i[4])]]

create_v_node(pd, f, dir) ==
    [shape |-> v_shape(dir),
     val |-> [i \in NdIndex(v_shape(dir)) |-> v_node_value(pd, f, i[1], i[2], i[3], i[4])]]

create_d_node(pd, f, dir) ==
    [shape |-> d_shape(dir),
     val |-> [i \in NdIndex(d_shape(dir)) |-> d_node_value(pd, f, i[1], i[2], i[3], i[4])]]

\* tt.tsr.delta(shape): 1 where all the indices of non-dummy axes are equal.
create_s_node(dir) ==
    [shape |-> s_shape(dir),
     val |-> [i \in NdIndex(s_shape(dir)) |->
                 IF \A a, b \in {k \in 1..4 : s_shape(dir)[k] > 1} : i[a] = i[b]
                 THEN 1 ELSE 0]]

EmptyCell == [kind |-> "none", prob_dist |-> <<>>, f |-> "", dir |-> ""]

\* The tensor of a cell of the network.
Tensor(cell) ==
    CASE cell.kind = "h" -> create_h_node(cell.prob_dist, cell.f, cell.dir)
      [] cell.kind = "v" -> create_v_node(cell.prob_dist, cell.f, cell.dir)
      [] cell.kind = "d" -> create_d_node(cell.prob_dist, cell.f, cell.dir)
      [] cell.kind = "s" -> create_s_node(cell.dir)

\* node.shape of the node of a cell: _shape(compass_direction) of its creator.
NodeShape(cell) ==
    CASE cell.kind = "h" -> h_shape(cell.dir)
      [] cell.kind = "v" -> v_shape(cell.dir)
      [] cell.kind = "d" -> d_shape(cell.dir)
      [] cell.kind = "s" -> s_shape(cell.dir)

\* The s-node index one column to the right of the q-node index.
rotate_p_index_east(index, c) ==
    LET site_r == site_bounds(c)[2] - index[2]
        site_c == index[1]
    IN  <<site_bounds(c)[1] - site_c + site_r, site_r + site_c + 1>>

rotate_q_index(index, c) ==
    LET site_x == index[1]
        site_y == index[2]
        site_r == site_bounds(c)[2] - site_y
        site_c == site_x
    IN  <<site_bounds(c)[1] - site_c + site_r, site_r + site_c>>

rotate_p_index(index, c) ==
    LET q_node == rotate_q_index(index, c)
    IN  <<q_node[1] - 1, q_node[2]>>

compass_q_direction(index, c) ==
    (IF index[2] = site_bounds(c)[2] THEN "n" ELSE IF index[2] = 0 THEN "s" ELSE "")
        \o (IF index[1] = 0 THEN "w" ELSE IF index[1] = site_bounds(c)[1] THEN "e" ELSE "")

\* The compass direction of a plaquette computed with the southern and
\* western limits of the sites, 0, in place of those of the plaquettes, -1.
compass_p_direction_site_limits(index, c) ==
    (IF index[2] = site_bounds(c)[2] THEN "n" ELSE IF index[2] = 0 THEN "s" ELSE "")
        \o (IF index[1] = 0 THEN "w" ELSE IF index[1] = site_bounds(c)[1] THEN "e" ELSE "")

compass_p_direction(index, c) ==
    (IF index[2] = site_bounds(c)[2] THEN "n" ELSE IF index[2] = 0 - 1 THEN "s" ELSE "")
        \o (IF index[1] = 0 - 1 THEN "w" ELSE IF index[1] = site_bounds(c)[1] THEN "e" ELSE "")

\* Indexing a numpy array of the given shape: a negative index counts from
\* the end; an index outside the array raises IndexError.
numpy_index(shape, index) ==
    <<IF index[1] < 0 THEN index[1] + shape[1] ELSE index[1],
      IF index[2] < 0 THEN index[2] + shape[2] ELSE index[2]>>

index_in_array(shape, index) ==
    /\ numpy_index(shape, index)[1] \in 0..(shape[1] - 1)
    /\ numpy_index(shape, index)[2] \in 0..(shape[2] - 1)

\* tn[index] = node
tn_put(cells, shape, index, node) == [cells EXCEPT ![numpy_index(shape, index)] = node]

\* The q-node with the reflected coordinate of plaquette(), (max_site_y - 1) - y.
q_node_shifted(c, pd, P, code_index) ==
    LET q_pauli == operator(P, code_index)
        dir == compass_q_direction(code_index, c)
        x_prim == code_index[1]
        y_prim == (site_bounds(c)[2] - 1) - code_index[2]
    IN  IF is_z_plaquette(code_index)
        THEN IF x_prim = y_prim
             THEN [kind |-> "d", prob_dist |-> pd, f |-> q_pauli, dir |-> dir]
             ELSE [kind |-> "h", prob_dist |-> pd, f |-> q_pauli, dir |-> dir]
        ELSE [kind |-> "v", prob_dist |-> pd, f |-> q_pauli, dir |-> dir]

\* The q-node of a site: a d-node on the diagonal, an h-node on the other
\* sites of even x + y, a v-node elsewhere.
q_node(c, pd, P, code_index) ==
    LET q_pauli == operator(P, code_index)
        dir == compass_q_direction(code_index, c)
        x_prim == code_index[1]
        y_prim == site_bounds(c)[2] - code_index[2]
    IN  IF is_z_plaquette(code_index)
        THEN IF x_prim = y_prim
             THEN [kind |-> "d", prob_dist |-> pd, f |-> q_pauli, dir |-> dir]
             ELSE [kind |-> "h", prob_dist |-> pd, f |-> q_pauli, dir |-> dir]
        ELSE [kind |-> "v", prob_dist |-> pd, f |-> q_pauli, dir |-> dir]

s_node(c, code_index) ==
    [kind |-> "s", prob_dist |-> <<>>, f |-> "", dir |-> compass_p_direction(code_index, c)]

\* The body of the loop of create_tn for one code index: the q-node of a site
\* is stored first, then the s-node of a plaquette.
TnStep(c, pd, P, t, code_index) ==
    LET q_node_index == rotate_q_index(code_index, c)
        s_node_index == rotate_p_index(code_index, c)
        t1 == IF ~is_in_site_bounds(c, code_index) THEN t
              ELSE IF ~index_in_array(t.shape, q_node_index)
                   THEN [t EXCEPT !.raised = "IndexError"]
                   ELSE [t EXCEPT !.cells = tn_put(@, t.shape, q_node_index,
                                                   q_node(c, pd, P, code_index))]
    IN  IF t1.raised # "none" \/ ~is_in_plaquette_bounds(c, code_index) THEN t1
        ELSE IF ~index_in_array(t1.shape, s_node_index)
             THEN [t1 EXCEPT !.raised = "IndexError"]
             ELSE [t1 EXCEPT !.cells = tn_put(@, t1.shape, s_node_index,
                                              s_node(c, code_index))]

\* itertools.product(range(-1, max_site_x + 1), range(-1, max_site_y + 1)):
\* the inner range, over y, for one x.  An IndexError ends the loops.
RECURSIVE TnLoopY(_, _, _, _, _, _)
TnLoopY(c, pd, P, t, x, y) ==
    IF t.raised # "none" \/ y > site_bounds(c)[2] THEN t
    ELSE TnLoopY(c, pd, P, TnStep(c, pd, P, t, <<x, y>>), x, y + 1)

\* The outer range, over x.
RECURSIVE TnLoopX(_, _, _, _, _)
TnLoopX(c, pd, P, t, x) ==
    IF t.raised # "none" \/ x > site_bounds(c)[1] THEN t
    ELSE TnLoopX(c, pd, P, TnLoopY(c, pd, P, t, x, 0 - 1), x + 1)

create_tn(c, pd, P) ==
    LET tn_max_r == rotate_q_index(<<0, 0>>, c)[1]
        tn_max_c == rotate_q_index(<<site_bounds(c)[1], 0>>, c)[2]
    IN  TnLoopX(c, pd, P,
                [shape |-> <<tn_max_r + 1, tn_max_c + 1>>,
                 cells |-> [i \in (0..tn_max_r) \X (0..tn_max_c) |-> EmptyCell],
                 raised |-> "none"],
                0 - 1)

(***************************************************************************)
(* Exact contraction of a network: the sum, over all values of the bonds,  *)
(* of the product of the node entries.  Axes are (n, e, s, w); the e axis  *)
(* of a node is joined to the w axis of the node to its right, the s axis  *)
(* to the n axis of the node below.  An s-node entry is 0 unless all its   *)
(* non-dummy bonds carry one value, so the sum runs over one value per     *)
(* s-node; an axis facing no node is a dummy and carries 0.                *)
(***************************************************************************)

Neighbour(i, axis) ==
    CASE axis = 1 -> <<i[1] - 1, i[2]>>
      [] axis = 2 -> <<i[1], i[2] + 1>>
      [] axis = 3 -> <<i[1] + 1, i[2]>>
      [] axis = 4 -> <<i[1], i[2] - 1>>

Opposite(axis) == IF axis <= 2 THEN axis + 2 ELSE axis - 2

CellAt(t, i) == IF i \in DOMAIN t.cells THEN t.cells[i] ELSE EmptyCell

\* Every axis has the dimension of the axis it is joined to, or 1 when it
\* faces no node; q-nodes are joined to s-nodes only.
Contractible(t) ==
    /\ t.raised = "none"
    /\ \A i \in DOMAIN t.cells : t.cells[i].kind # "none" =>
          \A axis \in 1..4 :
             LET nb == CellAt(t, Neighbour(i, axis))
             IN  IF nb.kind = "none"
                 THEN Tensor(t.cells[i]).shape[axis] = 1
                 ELSE /\ Tensor(t.cells[i]).shape[axis] = Tensor(nb).shape[Opposite(axis)]
                      /\ (t.cells[i].kind = "s") # (nb.kind = "s")

SetToSeq(S) == 
    LET RECURSIVE go(_)
        go(T) == IF T = {} THEN <<>>
                 ELSE LET m == CHOOSE x \in T : TRUE IN <<m>> \o go(T \ {m})
    IN  go(S)

\* The value carried by the bond of q-node i along an axis, given the set of
\* s-nodes whose bonds carry 1.
BondValue(t, active, i, axis) ==
    IF CellAt(t, Neighbour(i, axis)).kind = "none" THEN 0
    ELSE IF Neighbour(i, axis) \in active THEN 1 ELSE 0

RECURSIVE NodeProduct(_, _, _, _)
NodeProduct(t, active, qs, k) ==
    IF k > Len(qs) THEN 1
    ELSE LET i == qs[k]
             v == Tensor(t.cells[i]).val[<<BondValue(t, active, i, 1),
                                           BondValue(t, active, i, 2),
                                           BondValue(t, active, i, 3),
                                           BondValue(t, active, i, 4)>>]
         IN  IF v = 0 THEN 0 ELSE v * NodeProduct(t, active, qs, k + 1)

RECURSIVE BondSum(_, _, _, _, _)
BondSum(t, qs, ss, k, active) ==
    IF k > Len(ss) THEN NodeProduct(t, active, qs, 1)
    ELSE BondSum(t, qs, ss, k + 1, active) + BondSum(t, qs, ss, k + 1, active \cup {ss[k]})

\* The contracted value, or -1 when the network cannot be contracted.
Contract(t) ==
    IF ~Contractible(t) THEN 0 - 1
    ELSE BondSum(t,
                 SetToSeq({i \in DOMAIN t.cells : t.cells[i].kind \in {"h", "v", "d"}}),
                 SetToSeq({i \in DOMAIN t.cells : t.cells[i].kind = "s"}),
                 1, {})

(***************************************************************************)
(* The decoder and the memoised methods of its tensor network creator.     *)
(***************************************************************************)

NoDecoder == [chi |-> "none", mode |-> "none", tol |-> "none"]
NoCall == [fn |-> "none", args |-> <<>>, hit |-> FALSE]
NoReturn == <<>>

\* One lru_cache per decorated method, each an LRU-ordered sequence of
\* [key, value] entries (least recently used first).
EmptyCaches ==
    [create_h_node |-> <<>>, v_node_value |-> <<>>, d_node_value |-> <<>>,
     create_d_node |-> <<>>, create_s_node |-> <<>>]

\* No decoder has been constructed and no TNC method called.
NoTNC ==
    /\ decoder = NoDecoder
    /\ cache = EmptyCaches
    /\ call = NoCall
    /\ ret = NoReturn
    /\ ncalls = 0

None == [type |-> "None", value |-> 0]

\* The constructor RotatedPlanarXZZXdYRMPSDecoder inherits (it defines none):
\* chi is None or an integer >= 0 ('[chi] INT >=0'), mode is one of 'c', 'r',
\* 'a', tol is None or a real >= 0; a value of another type makes the
\* comparison raise TypeError, which is re-raised as ValueError.
RMPSDecoder_init(chi, mode, tol) ==
    IF /\ chi.type = "None" \/ (chi.type = "int" /\ chi.value >= 0)
       /\ mode \in {"c", "r", "a"}
       /\ tol.type = "None" \/ (tol.type \in {"int", "float"} /\ tol.value >= 0)
    THEN [raised |-> "none", decoder |-> [chi |-> chi, mode |-> mode, tol |-> tol]]
    ELSE [raised |-> "ValueError", decoder |-> NoDecoder]

\* RotatedPlanarXZZXdYRMPSDecoder(): chi=None, mode='c', tol=None.
DefaultDecoder == RMPSDecoder_init(None, "c", None).decoder

\* bool(v) of a parameter value: None, 0 and 0.0 are false.
truthy(v) == v.type # "None" /\ v.value # 0

\* The label listing every parameter, whatever its value.
label_unfiltered(dec) ==
    <<(<<"chi", dec.chi>>), (<<"mode", dec.mode>>), (<<"tol", dec.tol>>)>>

\* label: the parameters (chi, mode, tol) whose value is true, in that order.
label(dec) ==
    (IF truthy(dec.chi) THEN <<(<<"chi", dec.chi>>)>> ELSE <<>>)
        \o <<(<<"mode", dec.mode>>)>>
        \o (IF truthy(dec.tol) THEN <<(<<"tol", dec.tol>>)>> ELSE <<>>)

\* The cache key without the first argument of the call.
make_key_no_prob_dist(args) == Tail(args)

\* The key lru_cache makes of the positional arguments of a call (self, the
\* one TNC object of the decoder, is left out).
make_key(args) == args

lru_find(entries, key) == {i \in 1..Len(entries) : entries[i].key = key}

lru_hit(entries, key) == lru_find(entries, key) # {}

lru_get(entries, key) == entries[CHOOSE i \in lru_find(entries, key) : TRUE].value

\* A hit makes the entry the most recently used one.
lru_touch(entries, key) ==
    LET i == CHOOSE j \in lru_find(entries, key) : TRUE
    IN  SubSeq(entries, 1, i - 1) \o SubSeq(entries, i + 1, Len(entries)) \o <<entries[i]>>

\* A miss stores the result and evicts the least recently used entry of a
\* full cache.
lru_put(entries, key, value) ==
    LET e == Append(entries, [key |-> key, value |-> value])
    IN  IF Len(e) > MaxCacheSize THEN Tail(e) ELSE e

\* np.ndindex(shape) in iteration order.
NdIndexSeq(shape) ==
    [k \in 1..(shape[1] * shape[2] * shape[3] * shape[4]) |->
        <<((k - 1) \div (shape[2] * shape[3] * shape[4])) % shape[1],
          ((k - 1) \div (shape[3] * shape[4])) % shape[2],
          ((k - 1) \div shape[4]) % shape[3],
          (k - 1) % shape[4]>>]

\* The decorated methods: the caches after the call and the value returned.
lru_v_node_value(cs, pd, f, n, e, s, w) ==
    LET key == make_key(<<pd, f, n, e, s, w>>)
    IN  IF lru_hit(cs.v_node_value, key)
        THEN [cache |-> [cs EXCEPT !.v_node_value = lru_touch(@, key)],
              value |-> lru_get(cs.v_node_value, key), hit |-> TRUE]
        ELSE [cache |-> [cs EXCEPT !.v_node_value =
                                      lru_put(@, key, v_node_value(pd, f, n, e, s, w))],
              value |-> v_node_value(pd, f, n, e, s, w), hit |-> FALSE]

lru_d_node_value(cs, pd, f, n, e, s, w) ==
    LET key == make_key(<<pd, f, n, e, s, w>>)
    IN  IF lru_hit(cs.d_node_value, key)
        THEN [cache |-> [cs EXCEPT !.d_node_value = lru_touch(@, key)],
              value |-> lru_get(cs.d_node_value, key), hit |-> TRUE]
        ELSE [cache |-> [cs EXCEPT !.d_node_value =
                                      lru_put(@, key, d_node_value(pd, f, n, e, s, w))],
              value |-> d_node_value(pd, f, n, e, s, w), hit |-> FALSE]

\* The filling loop of create_v_node (fn = "v") and create_d_node (fn = "d"):
\* node[(n, e, s, w)] = self.v_node_value(...) / self.d_node_value(...).
RECURSIVE FillNode(_, _, _, _, _, _, _)
FillNode(cs, fn, pd, f, indices, k, node) ==
    IF k > Len(indices) THEN [cache |-> cs, value |-> node]
    ELSE LET i == indices[k]
             r == IF fn = "v" THEN lru_v_node_value(cs, pd, f, i[1], i[2], i[3], i[4])
                  ELSE lru_d_node_value(cs, pd, f, i[1], i[2], i[3], i[4])
         IN  FillNode(r.cache, fn, pd, f, indices, k + 1, node @@ (i :> r.value))

lru_create_h_node(cs, pd, f, dir) ==
    LET key == make_key(<<pd, f, dir>>)
    IN  IF lru_hit(cs.create_h_node, key)
        THEN [cache |-> [cs EXCEPT !.create_h_node = lru_touch(@, key)],
              value |-> lru_get(cs.create_h_node, key), hit |-> TRUE]
        ELSE [cache |-> [cs EXCEPT !.create_h_node =
                                      lru_put(@, key, create_h_node(pd, f, dir))],
              value |-> create_h_node(pd, f, dir), hit |-> FALSE]

\* create_v_node is not decorated; its values come from the decorated
\* v_node_value.
call_create_v_node(cs, pd, f, dir) ==
    LET r == FillNode(cs, "v", pd, f, NdIndexSeq(v_shape(dir)), 1, <<>>)
    IN  [cache |-> r.cache, value |-> [shape |-> v_shape(dir), val |-> r.value],
         hit |-> FALSE]

lru_create_d_node(cs, pd, f, dir) ==
    LET key == make_key(<<pd, f, dir>>)
        r == FillNode(cs, "d", pd, f, NdIndexSeq(d_shape(dir)), 1, <<>>)
    IN  IF lru_hit(cs.create_d_node, key)
        THEN [cache |-> [cs EXCEPT !.create_d_node = lru_touch(@, key)],
              value |-> lru_get(cs.create_d_node, key), hit |-> TRUE]
        ELSE [cache |-> [r.cache EXCEPT !.create_d_node =
                            lru_put(@, key, [shape |-> d_shape(dir), val |-> r.value])],
              value |-> [shape |-> d_shape(dir), val |-> r.value], hit |-> FALSE]

lru_create_s_node(cs, dir) ==
    LET key == make_key(<<dir>>)
    IN  IF lru_hit(cs.create_s_node, key)
        THEN [cache |-> [cs EXCEPT !.create_s_node = lru_touch(@, key)],
              value |-> lru_get(cs.create_s_node, key), hit |-> TRUE]
        ELSE [cache |-> [cs EXCEPT !.create_s_node = lru_put(@, key, create_s_node(dir))],
              value |-> create_s_node(dir), hit |-> FALSE]

(***************************************************************************)
(* Specification Spec: construct a code, take an operator on it, apply one *)
(* plaquette or logical operator.                                          *)
(***************************************************************************)

\* Constructor arguments: integers around the valid range, and values that
\* are no integers.
DistanceArgs ==
    [type : {"int"}, value : (0 - MaxHalf)..(2 * MaxHalf + 2)]
        \cup [type : {"float", "str"}, value : {MIN_SIZE}]

\* Plaquette indices handed to plaquette(): the bounding box and one ring of
\* indices outside the coordinate range.
PlaquetteArgs(c) ==
    ((0 - 2)..(site_bounds(c)[1] + 1)) \X ((0 - 2)..(site_bounds(c)[2] + 1))

Init ==
    /\ pc = "new"
    /\ code = NoCode
    /\ arg = NoArg
    /\ error = "none"
    /\ pauli = NoPauli
    /\ prev = NoPauli
    /\ last = [op |-> "none", index |-> NoIndex]
    /\ syndrome = <<>>
    /\ calls = <<>>
    /\ prob_dist = <<>>
    /\ tn = <<>>
    /\ NoTNC

Construct(variant, distance) ==
    /\ pc = "new"
    /\ LET r == IF variant = "XY" THEN XY_init(distance) ELSE XZZXdY_init(distance)
       IN  /\ code' = r.code
           /\ error' = r.raised
           /\ pc' = IF r.raised = "none" THEN "built" ELSE "failed"
    /\ arg' = [type |-> distance.type, value |-> distance.value, variant |-> variant]
    /\ last' = [op |-> "init", index |-> NoIndex]
    /\ UNCHANGED <<tnc_vars, pauli, prev, syndrome, calls, prob_dist, tn>>

NewPauli(bsf) ==
    /\ pc = "built"
    /\ pauli' = new_pauli(code, bsf)
    /\ pc' = "ready"
    /\ last' = [op |-> "new_pauli", index |-> NoIndex]
    /\ UNCHANGED <<tnc_vars, code, arg, error, prev, syndrome, calls, prob_dist, tn>>

Plaquette(index) ==
    /\ pc = "ready"
    /\ prev' = pauli
    /\ pauli' = plaquette(code, pauli, index)
    /\ last' = [op |-> "plaquette", index |-> index]
    /\ pc' = "done"
    /\ UNCHANGED <<tnc_vars, code, arg, error, syndrome, calls, prob_dist, tn>>

LogicalX ==
    /\ pc = "ready"
    /\ prev' = pauli
    /\ pauli' = logical_x(code, pauli)
    /\ last' = [op |-> "logical_x", index |-> NoIndex]
    /\ pc' = "done"
    /\ UNCHANGED <<tnc_vars, code, arg, error, syndrome, calls, prob_dist, tn>>

LogicalY ==
    /\ pc = "ready"
    /\ prev' = pauli
    /\ pauli' = logical_y(code, pauli)
    /\ last' = [op |-> "logical_y", index |-> NoIndex]
    /\ pc' = "done"
    /\ UNCHANGED <<tnc_vars, code, arg, error, syndrome, calls, prob_dist, tn>>

LogicalZ ==
    /\ pc = "ready"
    /\ prev' = pauli
    /\ pauli' = logical_z(code, pauli)
    /\ last' = [op |-> "logical_z", index |-> NoIndex]
    /\ pc' = "done"
    /\ UNCHANGED <<tnc_vars, code, arg, error, syndrome, calls, prob_dist, tn>>

Next ==
    \/ pc = "new" /\ \E variant \in Variants, distance \in DistanceArgs :
                       Construct(variant, distance)
    \/ pc = "built" /\ \E bsf \in PaulisUpTo(code, MaxWeight) : NewPauli(bsf)
    \/ pc = "ready" /\ \E index \in PlaquetteArgs(code) : Plaquette(index)
    \/ LogicalX
    \/ LogicalY
    \/ LogicalZ

Spec == Init /\ [][Next]_vars

(***************************************************************************)
(* Properties of Spec.                                                     *)
(***************************************************************************)

\* The single-site Pauli by which Q differs from P at a site.
Delta(P, Q, index) ==
    operator([xs |-> [i \in DOMAIN P.xs |-> (P.xs[i] + Q.xs[i]) % 2],
              zs |-> [i \in DOMAIN P.zs |-> (P.zs[i] + Q.zs[i]) % 2]], index)

\* C3: for both variants and every starting operator, logical_z() gives the
\* operator that logical_y() then logical_x() gives, and the operator that
\* logical_x() then logical_y() gives.
C3_LogicalZIsYX ==
    last.op = "logical_z" =>
        /\ pauli = logical_x(code, logical_y(code, prev))
        /\ pauli = logical_y(code, logical_x(code, prev))

\* C4: for both variants, plaquette(index) at an index that is not in
\* plaquette bounds (outside the coordinate range, or virtual) leaves every
\* site unchanged and raises nothing.
C4_OutOfBoundsPlaquetteNoOp ==
    (last.op = "plaquette" /\ ~is_in_plaquette_bounds(code, last.index)) =>
        /\ pauli = prev
        /\ error = "none"
        /\ pc = "done"

C4_Witness ==
    /\ last.op = "plaquette"
    /\ last.index = <<0 - 1, 0 - 1>>
    /\ is_virtual_plaquette(code, last.index)
    /\ code.variant = "XZZXdY"
    /\ prev # Identity(code)
    /\ pauli = prev

\* C5: construction succeeds for every odd integer distance d >= 3, fails
\* with a value error for every even integer and every integer below 3, and
\* fails with a type error for a distance that is no integer; a failed
\* construction produces no code object.
C5_ConstructionOutcome ==
    arg.type # "none" =>
        /\ (arg.type = "int" /\ arg.value >= 3 /\ arg.value % 2 = 1) =>
               /\ error = "none"
               /\ code = [variant |-> arg.variant, size |-> <<arg.value, arg.value>>]
        /\ (arg.type = "int" /\ (arg.value < 3 \/ arg.value % 2 = 0)) =>
               /\ error = "ValueError"
               /\ code = NoCode
               /\ pc = "failed"
        /\ arg.type # "int" =>
               /\ error = "TypeError"
               /\ code = NoCode
               /\ pc = "failed"

C5_Witness ==
    /\ pc = "failed"
    /\ arg.type = "int"
    /\ arg.value = 4
    /\ arg.variant = "XY"
    /\ error = "ValueError"
    /\ code = NoCode

\* What plaquette(index) composed into each site, given the tests that switch
\* the SW and the NE corner to Y.
CornerOps(index, swIsY, neIsY, i) ==
    LET x == index[1]
        y == index[2]
    IN  IF i = <<x, y>> THEN (IF swIsY THEN "Y" ELSE "Z")
        ELSE IF i = <<x, y + 1>> THEN "X"
        ELSE IF i = <<x + 1, y + 1>> THEN (IF neIsY THEN "Y" ELSE "Z")
        ELSE IF i = <<x + 1, y>> THEN "X"
        ELSE "I"

\* C6 as stated: with y' = max_y - y, an in-bounds XZZXdY plaquette (x, y)
\* applies Z,X,Z,X to SW,NW,NE,SE, with SW switched to Y exactly when
\* y' + 1 = x and NE switched to Y exactly when y' - 1 = x.
C6_YCornerReflectedMaxY ==
    (last.op = "plaquette" /\ code.variant = "XZZXdY"
        /\ is_in_plaquette_bounds(code, last.index)) =>
        LET x == last.index[1]
            y_prim == site_bounds(code)[2] - last.index[2]
        IN  \A i \in Sites(code) :
                Delta(prev, pauli, i)
                    = CornerOps(last.index, y_prim + 1 = x, y_prim - 1 = x, i)

\* C6 amended: with y' = (max_y - 1) - y, an in-bounds XZZXdY plaquette
\* (x, y) applies Z,X,Z,X to SW,NW,NE,SE, with exactly the SW corner switched
\* to Y when y' + 1 = x and exactly the NE corner switched to Y when
\* y' - 1 = x; no plaquette has more than one Y corner.
C6_YCornerReflectedMaxYMinusOne ==
    (last.op = "plaquette" /\ code.variant = "XZZXdY"
        /\ is_in_plaquette_bounds(code, last.index)) =>
        LET x == last.index[1]
            y_prim == (site_bounds(code)[2] - 1) - last.index[2]
        IN  /\ \A i \in Sites(code) :
                   Delta(prev, pauli, i)
                       = CornerOps(last.index, y_prim + 1 = x, y_prim - 1 = x, i)
            /\ Cardinality({i \in Sites(code) : Delta(prev, pauli, i) = "Y"}) <= 1

C6_Witness ==
    /\ last.op = "plaquette"
    /\ code = NewCode("XZZXdY", 5)
    /\ last.index = <<1, 1>>
    /\ Delta(prev, pauli, <<2, 2>>) = "Y"
    /\ Delta(prev, pauli, <<1, 1>>) = "Z"
    /\ prev # Identity(code)

(***************************************************************************)
(* Specification SpecRecovery: the sample recovery of a syndrome on an     *)
(* XZZXdY code.                                                            *)
(***************************************************************************)

InitRecovery ==
    /\ pc = "built"
    /\ \E d \in Distances :
          /\ arg = [type |-> "int", value |-> d, variant |-> "XZZXdY"]
          /\ code = XZZXdY_init([type |-> "int", value |-> d]).code
    /\ error = "none"
    /\ pauli = NoPauli
    /\ prev = NoPauli
    /\ last = [op |-> "init", index |-> NoIndex]
    /\ syndrome = <<>>
    /\ calls = <<>>
    /\ prob_dist = <<>>
    /\ tn = <<>>
    /\ NoTNC

SampleRecovery(s) ==
    /\ pc = "built"
    /\ syndrome' = s
    /\ pauli' = sample_recovery(code, s)
    /\ last' = [op |-> "sample_recovery", index |-> NoIndex]
    /\ pc' = "sampled"
    /\ UNCHANGED <<tnc_vars, code, arg, error, prev, calls, prob_dist, tn>>

NextRecovery == pc = "built" /\ \E s \in Syndromes(code) : SampleRecovery(s)

SpecRecovery == InitRecovery /\ [][NextRecovery]_vars

(***************************************************************************)
(* Properties of SpecRecovery.                                             *)
(***************************************************************************)

Weight(s) == Cardinality({k \in 1..Len(s) : s[k] # 0})

Support(P) == {i \in DOMAIN P.xs : operator(P, i) # "I"}

\* C1: the operator returned by sample_recovery(code, s) anticommutes with
\* exactly the plaquette operators flagged in s: its syndrome is s.
C1_RecoverySyndromeIsInput ==
    last.op = "sample_recovery" => Syndrome(code, pauli) = syndrome

C1_Witness ==
    /\ last.op = "sample_recovery"
    /\ code = NewCode("XZZXdY", 5)
    /\ Weight(syndrome) = 2
    /\ Syndrome(code, pauli) = syndrome

\* The sites C7 names for a flagged plaquette (px, py).
C7_Path(c, p) ==
    LET px == p[1]
        py == p[2]
        n == c.size[1]
    IN  IF (px < py /\ (px - py) % 2 = 0) \/ (px > py /\ (px - py) % 2 = 1)
        THEN {<<px - k, py - k>> : k \in {j \in 0..n : px - j >= 0 /\ py - j >= 0}}
        ELSE {<<px + k, py + k>> :
                 k \in {j \in 1..n : is_in_site_bounds(c, <<px + j, py + j>>)}}

\* C7: a flagged plaquette (px, py) is joined by X to the lower-left boundary
\* on the sites (px-k, py-k), k >= 0, iff (px < py and px-py even) or
\* (px > py and px-py odd), and otherwise to the upper-right boundary on the
\* sites (px+k, py+k), k >= 1; the paths compose mod 2 and the zero syndrome
\* gives the identity.
C7_RecoveryPaths ==
    last.op = "sample_recovery" =>
        LET flagged == {plaquette_indices(code)[k] :
                           k \in {j \in 1..Len(syndrome) : syndrome[j] = 1}}
        IN  /\ \A i \in Sites(code) :
                   /\ pauli.xs[i]
                          = Cardinality({p \in flagged : i \in C7_Path(code, p)}) % 2
                   /\ pauli.zs[i] = 0
            /\ Weight(syndrome) = 0 => pauli = Identity(code)

C7_Witness ==
    /\ last.op = "sample_recovery"
    /\ code = NewCode("XZZXdY", 5)
    /\ syndrome_to_plaquette_indices(code, syndrome) = {<<1, 3>>, <<2, 2>>}
    /\ Support(pauli) = {<<1, 3>>, <<0, 2>>, <<3, 3>>, <<4, 4>>}

\* The plaquette whose lower-left corner is the lower-left site of the lattice.
LowerLeftCornerPlaquette == <<0, 0>>

\* C8 as stated: on the distance-3 code, the recovery of the syndrome that
\* flags only the lower-left corner plaquette is supported on the diagonal
\* path from that plaquette to the lower-left boundary.
C8_CornerRecoveryLowerLeft ==
    (last.op = "sample_recovery" /\ code.size = <<3, 3>>
        /\ syndrome_to_plaquette_indices(code, syndrome) = {LowerLeftCornerPlaquette}) =>
        Support(pauli) \subseteq
            {<<LowerLeftCornerPlaquette[1] - k, LowerLeftCornerPlaquette[2] - k>> :
                k \in {j \in 0..3 : LowerLeftCornerPlaquette[1] - j >= 0
                                    /\ LowerLeftCornerPlaquette[2] - j >= 0}}

\* C8 amended: on the distance-3 code, the recovery of the syndrome that
\* flags only the lower-left corner plaquette (0, 0) is supported on the
\* diagonal path from that plaquette to the upper-right boundary, the sites
\* (1, 1) and (2, 2), and is X on both.
C8_CornerRecoveryUpperRight ==
    (last.op = "sample_recovery" /\ code.size = <<3, 3>>
        /\ syndrome_to_plaquette_indices(code, syndrome) = {LowerLeftCornerPlaquette}) =>
        /\ Support(pauli) = {<<1, 1>>, <<2, 2>>}
        /\ operator(pauli, <<1, 1>>) = "X"
        /\ operator(pauli, <<2, 2>>) = "X"

C8_Witness ==
    /\ last.op = "sample_recovery"
    /\ code = NewCode("XZZXdY", 3)
    /\ syndrome_to_plaquette_indices(code, syndrome) = {<<0, 0>>}
    /\ operator(pauli, <<0, 0>>) = "I"
    /\ operator(pauli, <<2, 2>>) = "X"

(***************************************************************************)
(* Specification SpecTN: the decoder's use of create_tn on an XZZXdY code: *)
(* a sample recovery, possibly composed with a logical representative, is  *)
(* turned into a tensor network for a probability distribution.            *)
(***************************************************************************)

\* Probability distributions (I, X, Y, Z) in tenths: no error, and a biased
\* distribution with four different entries.
ProbDists == {<<10, 0, 0, 0>>, <<4, 1, 2, 3>>}

\* The logical methods composed into the sample recovery to form a coset
\* candidate, in call order.
LogicalReps ==
    {<<"logical_x">>, <<"logical_y">>, <<"logical_z">>,
     <<"logical_x", "logical_z">>, <<"logical_y", "logical_x">>,
     <<"logical_x", "logical_y">>}

RECURSIVE ApplyLogicals(_, _, _)
ApplyLogicals(c, P, rep) ==
    IF rep = <<>> THEN P
    ELSE LET Q == CASE Head(rep) = "logical_x" -> logical_x(c, P)
                    [] Head(rep) = "logical_y" -> logical_y(c, P)
                    [] Head(rep) = "logical_z" -> logical_z(c, P)
         IN  ApplyLogicals(c, Q, Tail(rep))

SyndromesTN(c) ==
    LET n == Len(plaquette_indices(c))
    IN  {[k \in 1..n |-> IF k \in A THEN 1 ELSE 0] : A \in SubsetsUpTo(1..n, MaxFlaggedTN)}

InitTN == InitRecovery

ComposeLogical(rep) ==
    /\ pc = "sampled"
    /\ prev' = pauli
    /\ pauli' = ApplyLogicals(code, pauli, rep)
    /\ calls' = rep
    /\ last' = [op |-> "logical", index |-> NoIndex]
    /\ pc' = "ready"
    /\ UNCHANGED <<tnc_vars, code, arg, error, syndrome, prob_dist, tn>>

CreateTN(pd) ==
    /\ pc \in {"sampled", "ready"}
    /\ prob_dist' = pd
    /\ tn' = create_tn(code, pd, pauli)
    /\ last' = [op |-> "create_tn", index |-> NoIndex]
    /\ pc' = "tn"
    /\ UNCHANGED <<tnc_vars, code, arg, error, pauli, prev, syndrome, calls>>

NextTN ==
    \/ pc = "built" /\ \E s \in SyndromesTN(code) : SampleRecovery(s)
    \/ \E rep \in LogicalReps : ComposeLogical(rep)
    \/ \E pd \in ProbDists : CreateTN(pd)

SpecTN == InitTN /\ [][NextTN]_vars

(***************************************************************************)
(* Specification SpecCoset: the same on the smallest lattice, where the    *)
(* coset probability is enumerated over the whole stabilizer group, and    *)
(* with operators built from a bsf as well.                                *)
(***************************************************************************)

InitCoset ==
    /\ pc = "built"
    /\ arg = [type |-> "int", value |-> MIN_SIZE, variant |-> "XZZXdY"]
    /\ code = XZZXdY_init([type |-> "int", value |-> MIN_SIZE]).code
    /\ error = "none"
    /\ pauli = NoPauli
    /\ prev = NoPauli
    /\ last = [op |-> "init", index |-> NoIndex]
    /\ syndrome = <<>>
    /\ calls = <<>>
    /\ prob_dist = <<>>
    /\ tn = <<>>
    /\ NoTNC

NextCoset ==
    \/ pc = "built" /\ \E bsf \in PaulisUpTo(code, MaxWeight) : NewPauli(bsf)
    \/ pc = "built" /\ \E s \in SyndromesTN(code) : SampleRecovery(s)
    \/ \E rep \in LogicalReps : ComposeLogical(rep)
    \/ \E pd \in ProbDists : CreateTN(pd)

SpecCoset == InitCoset /\ [][NextCoset]_vars

(***************************************************************************)
(* Properties of SpecCoset.                                                *)
(***************************************************************************)

RECURSIVE C2_SiteProduct(_, _, _, _)
C2_SiteProduct(pd, P, sites, k) ==
    IF k > Len(sites) THEN 1
    ELSE op_to_pr(pd, operator(P, sites[k])) * C2_SiteProduct(pd, P, sites, k + 1)

RECURSIVE C2_CosetSum(_, _, _, _, _)
C2_CosetSum(c, pd, P, sites, k) ==
    IF k > Len(plaquette_indices(c)) THEN C2_SiteProduct(pd, P, sites, 1)
    ELSE C2_CosetSum(c, pd, P, sites, k + 1)
             + C2_CosetSum(c, pd, plaquette(c, P, plaquette_indices(c)[k]), sites, k + 1)

\* The coset probability of P: the sum, over every product g of in-bounds
\* plaquette operators, of the product over the sites of the probability of
\* the single-site Pauli of P composed with g.
C2_CosetProbability(c, pd, P) == C2_CosetSum(c, pd, P, SetToSeq(Sites(c)), 1)

\* C2: the network create_tn(prob_dist, P) contracts exactly to the coset
\* probability of P (on the distance-3 lattice).
C2_NetworkContractsToCosetProbability ==
    pc = "tn" => Contract(tn) = C2_CosetProbability(code, prob_dist, pauli)

C2_Witness ==
    /\ pc = "tn"
    /\ code = NewCode("XZZXdY", 3)
    /\ prob_dist = <<4, 1, 2, 3>>
    /\ syndrome # <<>>
    /\ Weight(syndrome) = 1
    /\ calls = <<"logical_x">>
    /\ Contract(tn) > 0
    /\ Contract(tn) = C2_CosetProbability(code, prob_dist, pauli)

\* C9: on the distance-3 lattice with the distribution (1, 0, 0, 0) and the
\* zero syndrome, the network of the sample recovery alone contracts to 1
\* (here 10^9, the weights being tenths) and the network of the sample
\* recovery composed with a nonidentity logical representative to 0.
C9_ZeroNoiseSelectsIdentityCoset ==
    (pc = "tn" /\ code.size = <<3, 3>> /\ prob_dist = <<10, 0, 0, 0>>
        /\ syndrome # <<>> /\ Weight(syndrome) = 0) =>
        Contract(tn) = IF calls = <<>> THEN 1000000000 ELSE 0

C9_Witness ==
    /\ pc = "tn"
    /\ code = NewCode("XZZXdY", 3)
    /\ prob_dist = <<10, 0, 0, 0>>
    /\ syndrome # <<>>
    /\ Weight(syndrome) = 0
    /\ calls = <<>>
    /\ pauli = Identity(code)
    /\ Contract(tn) = 1000000000

(***************************************************************************)
(* Properties of SpecTN.                                                   *)
(***************************************************************************)

\* C10: create_tn places exactly one qubit node for every site and exactly
\* one stabilizer node for every in-bounds plaquette: their rotated indices
\* are pairwise distinct and inside the (2d-1) x (2d-1) grid, no index is
\* negative or out of range, and every other cell stays empty.
C10_OneNodePerSiteAndPlaquette ==
    pc = "tn" =>
        LET d == code.size[1]
            grid == (0..(2 * d - 2)) \X (0..(2 * d - 2))
            qImage == {rotate_q_index(i, code) : i \in Sites(code)}
            pImage == {rotate_p_index(p, code) : p \in InBoundsPlaquettes(code)}
        IN  /\ tn.raised = "none"
            /\ tn.shape = <<2 * d - 1, 2 * d - 1>>
            /\ DOMAIN tn.cells = grid
            /\ qImage \subseteq grid
            /\ pImage \subseteq grid
            /\ Cardinality(qImage \cup pImage)
                   = Cardinality(Sites(code)) + Cardinality(InBoundsPlaquettes(code))
            /\ \A i \in Sites(code) :
                   /\ tn.cells[rotate_q_index(i, code)].kind \in {"h", "v", "d"}
                   /\ tn.cells[rotate_q_index(i, code)].f = operator(pauli, i)
            /\ \A p \in InBoundsPlaquettes(code) :
                   tn.cells[rotate_p_index(p, code)].kind = "s"
            /\ \A cell \in grid \ (qImage \cup pImage) : tn.cells[cell] = EmptyCell

C10_Witness ==
    /\ pc = "tn"
    /\ code = NewCode("XZZXdY", 5)
    /\ tn.shape = <<9, 9>>
    /\ Cardinality({i \in DOMAIN tn.cells : tn.cells[i].kind \in {"h", "v", "d"}}) = 25
    /\ Cardinality({i \in DOMAIN tn.cells : tn.cells[i].kind = "s"}) = 24
    /\ tn.cells[<<0, 0>>] = EmptyCell
    /\ pauli # Identity(code)

\* C11: in the network of create_tn every axis of a node that faces a
\* non-empty cell has dimension 2, as has the facing axis of that cell, and
\* every axis that faces an empty cell or the edge of the grid has dimension
\* 1; the (missing) 'sw' shape of a v-node is never requested.
C11_AxisDimensionsMatchNeighbours ==
    pc = "tn" =>
        /\ tn.raised = "none"
        /\ \A i \in DOMAIN tn.cells : tn.cells[i].kind # "none" =>
              /\ ~(tn.cells[i].kind = "v" /\ tn.cells[i].dir = "sw")
              /\ \A axis \in 1..4 :
                    IF CellAt(tn, Neighbour(i, axis)).kind = "none"
                    THEN NodeShape(tn.cells[i])[axis] = 1
                    ELSE /\ NodeShape(tn.cells[i])[axis] = 2
                         /\ NodeShape(CellAt(tn, Neighbour(i, axis)))[Opposite(axis)] = 2

\* A distance-5 network: the corner h-node of site (0, 0) has dummy east and
\* south axes, the interior v-node of site (1, 2) has none, and the s-node of
\* the boundary plaquette (-1, 0) has dummy south and west axes.
C11_Witness ==
    /\ pc = "tn"
    /\ code = NewCode("XZZXdY", 5)
    /\ tn.raised = "none"
    /\ tn.cells[rotate_q_index(<<0, 0>>, code)].kind \in {"h", "d"}
    /\ tn.cells[rotate_q_index(<<0, 0>>, code)].dir = "sw"
    /\ NodeShape(tn.cells[rotate_q_index(<<0, 0>>, code)]) = <<2, 1, 1, 2>>
    /\ tn.cells[rotate_q_index(<<1, 2>>, code)].kind = "v"
    /\ NodeShape(tn.cells[rotate_q_index(<<1, 2>>, code)]) = <<2, 2, 2, 2>>
    /\ tn.cells[rotate_p_index(<<0 - 1, 0>>, code)].kind = "s"
    /\ NodeShape(tn.cells[rotate_p_index(<<0 - 1, 0>>, code)]) = <<2, 2, 1, 1>>

\* C12: create_tn gives a site (x, y) a d-node if and only if x = max_y - y;
\* every other site gets an h-node or a v-node, and no site of the diagonal
\* gets a v-node.
C12_DiagonalNodeIffOnDiagonal ==
    pc = "tn" =>
        \A i \in Sites(code) :
            /\ tn.cells[rotate_q_index(i, code)].kind \in {"h", "v", "d"}
            /\ (tn.cells[rotate_q_index(i, code)].kind = "d")
                   <=> (i[1] = site_bounds(code)[2] - i[2])

C12_Witness ==
    /\ pc = "tn"
    /\ code = NewCode("XZZXdY", 5)
    /\ tn.cells[rotate_q_index(<<0, 4>>, code)].kind = "d"
    /\ tn.cells[rotate_q_index(<<2, 2>>, code)].kind = "d"
    /\ tn.cells[rotate_q_index(<<4, 0>>, code)].kind = "d"
    /\ tn.cells[rotate_q_index(<<0, 0>>, code)].kind = "h"
    /\ tn.cells[rotate_q_index(<<1, 2>>, code)].kind = "v"
    /\ Cardinality({i \in Sites(code) : tn.cells[rotate_q_index(i, code)].kind = "d"}) = 5

\* A function as an explicit table of its values.
C16_Table(f) == f @@ <<>>

\* The plaquette operator of every in-bounds plaquette of an XZZXdY code.
C16_PlaquetteOperators ==
    C16_Table([d \in Distances |->
        C16_Table([p \in InBoundsPlaquettes(NewCode("XZZXdY", d)) |->
            plaquette(NewCode("XZZXdY", d), Identity(NewCode("XZZXdY", d)), p)])])

\* The plaquettes facing the n, e, s and w axes of the q-node of a site.
C16_Adjacent(i) ==
    <<(<<i[1], i[2]>>), (<<i[1], i[2] - 1>>), (<<i[1] - 1, i[2] - 1>>), (<<i[1] - 1, i[2]>>)>>

\* The single-site Pauli (as bit pair) at site i of f composed with the
\* plaquette operators of the adjacent plaquettes whose bond bit is 1.
C16_Composed(c, f, i, b) ==
    LET ops == C16_PlaquetteOperators[c.size[1]]
        adj == C16_Adjacent(i)
        on == {a \in 1..4 : b[a] = 1 /\ is_in_plaquette_bounds(c, adj[a])}
    IN  [x |-> (pauli_to_bsf(f).x + Cardinality({a \in on : ops[adj[a]].xs[i] = 1})) % 2,
         z |-> (pauli_to_bsf(f).z + Cardinality({a \in on : ops[adj[a]].zs[i] = 1})) % 2]

\* Bond dimensions of the q-node of a site: 2 towards an in-bounds plaquette.
C16_Shape(c, i) ==
    [a \in 1..4 |-> IF is_in_plaquette_bounds(c, C16_Adjacent(i)[a]) THEN 2 ELSE 1]

\* For every distance, site, distribution and local Pauli: the entries the
\* plaquette operators prescribe.
C16_Prescribed ==
    C16_Table([d \in Distances |->
        C16_Table([i \in Sites(NewCode("XZZXdY", d)) |->
            C16_Table([pd \in ProbDists |->
                C16_Table([f \in {"I", "X", "Y", "Z"} |->
                    C16_Table([b \in NdIndex(C16_Shape(NewCode("XZZXdY", d), i)) |->
                        op_to_pr(pd, bsf_to_pauli(
                            C16_Composed(NewCode("XZZXdY", d), f, i, b)))])])])])])

\* For every site: whether some plaquette operator applies Y to it.
C16_YApplied ==
    C16_Table([d \in Distances |->
        C16_Table([i \in Sites(NewCode("XZZXdY", d)) |->
            \E p \in InBoundsPlaquettes(NewCode("XZZXdY", d)) :
                operator(C16_PlaquetteOperators[d][p], i) = "Y"])])

\* The entries of every q-node the creators can make.
C16_Created ==
    C16_Table([cell \in [kind : {"h", "v", "d"}, prob_dist : ProbDists,
                         f : {"I", "X", "Y", "Z"},
                         dir : {"n", "ne", "e", "se", "s", "sw", "w", "nw", ""}] |->
        C16_Table(Tensor(cell).val)])

\* C16: the n, e, s, w axes of the q-node of site (x, y) face the s-nodes of
\* the plaquettes (x, y), (x, y-1), (x-1, y-1), (x-1, y) (a dummy axis where
\* that plaquette is out of bounds), and the entry at bond bits (n, e, s, w)
\* is the probability of the local sample Pauli composed with what
\* plaquette() applies to the site from the activated plaquettes; the site
\* has a d-node exactly when plaquette() applies Y to it.
C16_NodeEntriesFollowPlaquettes ==
    pc = "tn" =>
        \A i \in Sites(code) :
            /\ \A a \in 1..4 :
                  is_in_plaquette_bounds(code, C16_Adjacent(i)[a]) =>
                      Neighbour(rotate_q_index(i, code), a)
                          = rotate_p_index(C16_Adjacent(i)[a], code)
            /\ tn.cells[rotate_q_index(i, code)].f = operator(pauli, i)
            /\ C16_Created[tn.cells[rotate_q_index(i, code)]]
                   = C16_Prescribed[code.size[1]][i][prob_dist][operator(pauli, i)]
            /\ (tn.cells[rotate_q_index(i, code)].kind = "d")
                   <=> C16_YApplied[code.size[1]][i]

\* The d-node of the centre site of the distance-5 lattice, holding X: with
\* only the n bond active the entry is the probability of X composed with Y.
C16_Witness ==
    /\ pc = "tn"
    /\ code = NewCode("XZZXdY", 5)
    /\ prob_dist = <<4, 1, 2, 3>>
    /\ operator(pauli, <<2, 2>>) = "X"
    /\ tn.cells[rotate_q_index(<<2, 2>>, code)].kind = "d"
    /\ Tensor(tn.cells[rotate_q_index(<<2, 2>>, code)]).val[<<1, 0, 0, 0>>] = 3
    /\ Tensor(tn.cells[rotate_q_index(<<2, 2>>, code)]).val[<<0, 1, 0, 0>>] = 4

(***************************************************************************)
(* Specification SpecCache: node-construction calls on the tensor network  *)
(* creator of one decoder, through the lru_cache of the decorated methods. *)
(***************************************************************************)

base_vars == <<pc, code, arg, error, pauli, prev, last, syndrome, calls, prob_dist, tn>>

\* Arguments of the calls: both distributions, two local Paulis, the upper
\* boundary and the interior, and the last bond assignment of a node on the
\* upper boundary.
TNCPaulis == {"I", "Y"}
TNCDirection == "n"
TNCSDirections == {"n", ""}
TNCBonds == <<1, 1, 1, 0>>

InitCache ==
    /\ pc = "decoder"
    /\ code = NoCode
    /\ arg = NoArg
    /\ error = "none"
    /\ pauli = NoPauli
    /\ prev = NoPauli
    /\ last = [op |-> "init", index |-> NoIndex]
    /\ syndrome = <<>>
    /\ calls = <<>>
    /\ prob_dist = <<>>
    /\ tn = <<>>
    /\ decoder = DefaultDecoder
    /\ cache = EmptyCaches
    /\ call = NoCall
    /\ ret = NoReturn
    /\ ncalls = 0

\* One call: r is what the method gives on the caches as they are.
TNCCall(fn, args, r) ==
    /\ pc = "decoder"
    /\ ncalls < MaxCalls
    /\ cache' = r.cache
    /\ ret' = r.value
    /\ call' = [fn |-> fn, args |-> args, hit |-> r.hit]
    /\ ncalls' = ncalls + 1
    /\ UNCHANGED <<base_vars, decoder>>

CreateHNode(pd, f) ==
    TNCCall("create_h_node", <<pd, f, TNCDirection>>,
            lru_create_h_node(cache, pd, f, TNCDirection))

CreateVNode(pd, f) ==
    TNCCall("create_v_node", <<pd, f, TNCDirection>>,
            call_create_v_node(cache, pd, f, TNCDirection))

CreateDNode(pd, f) ==
    TNCCall("create_d_node", <<pd, f, TNCDirection>>,
            lru_create_d_node(cache, pd, f, TNCDirection))

CreateSNode(dir) ==
    TNCCall("create_s_node", <<dir>>, lru_create_s_node(cache, dir))

VNodeValue(pd, f) ==
    TNCCall("v_node_value", <<pd, f>> \o TNCBonds,
            lru_v_node_value(cache, pd, f, TNCBonds[1], TNCBonds[2], TNCBonds[3], TNCBonds[4]))

DNodeValue(pd, f) ==
    TNCCall("d_node_value", <<pd, f>> \o TNCBonds,
            lru_d_node_value(cache, pd, f, TNCBonds[1], TNCBonds[2], TNCBonds[3], TNCBonds[4]))

NextCache ==
    \/ \E pd \in ProbDists, f \in TNCPaulis : CreateHNode(pd, f)
    \/ \E pd \in ProbDists, f \in TNCPaulis : CreateVNode(pd, f)
    \/ \E pd \in ProbDists, f \in TNCPaulis : CreateDNode(pd, f)
    \/ \E dir \in TNCSDirections : CreateSNode(dir)
    \/ \E pd \in ProbDists, f \in TNCPaulis : VNodeValue(pd, f)
    \/ \E pd \in ProbDists, f \in TNCPaulis : DNodeValue(pd, f)

SpecCache == InitCache /\ [][NextCache]_vars

(***************************************************************************)
(* Properties of SpecCache.                                                *)
(***************************************************************************)

\* What the undecorated method computes from the arguments of a call.
C13_Uncached(fn, args) ==
    CASE fn = "create_h_node" -> create_h_node(args[1], args[2], args[3])
      [] fn = "create_v_node" -> create_v_node(args[1], args[2], args[3])
      [] fn = "create_d_node" -> create_d_node(args[1], args[2], args[3])
      [] fn = "create_s_node" -> create_s_node(args[1])
      [] fn = "v_node_value" ->
             v_node_value(args[1], args[2], args[3], args[4], args[5], args[6])
      [] fn = "d_node_value" ->
             d_node_value(args[1], args[2], args[3], args[4], args[5], args[6])

\* C13: after any sequence of node-construction calls, evictions included,
\* a call returns what an uncached construction from its own arguments
\* gives; no result computed for one probability distribution is returned
\* for another.
C13_MemoisedEqualsUncached ==
    call.fn # "none" => ret = C13_Uncached(call.fn, call.args)

\* A create_d_node hit for one distribution while the same cache also holds
\* the node of the other distribution, the d_node_value cache being full
\* after evictions.
C13_Witness ==
    /\ call.fn = "create_d_node"
    /\ call.hit
    /\ ncalls = 3
    /\ Len(cache.create_d_node) = 2
    /\ cache.create_d_node[1].key[1] # cache.create_d_node[2].key[1]
    /\ cache.create_d_node[1].key[2] = cache.create_d_node[2].key[2]
    /\ Len(cache.d_node_value) = MaxCacheSize
    /\ ret = create_d_node(call.args[1], call.args[2], call.args[3])

(***************************************************************************)
(* Specification SpecSyndrome: a code of either variant, an operator with  *)
(* at most one non-identity site built from its bsf, and one application   *)
(* of a plaquette or a logical operator.                                   *)
(***************************************************************************)

InitSyndrome ==
    /\ pc = "built"
    /\ \E c \in Codes :
          /\ arg = [type |-> "int", value |-> c.size[1], variant |-> c.variant]
          /\ code = NewCode(c.variant, c.size[1])
    /\ error = "none"
    /\ pauli = NoPauli
    /\ prev = NoPauli
    /\ last = [op |-> "init", index |-> NoIndex]
    /\ syndrome = <<>>
    /\ calls = <<>>
    /\ prob_dist = <<>>
    /\ tn = <<>>
    /\ NoTNC

\* The identity and the operators with one non-identity site.
SingleQubitOperators(c) == PaulisUpTo(c, 1)

NextSyndrome ==
    \/ pc = "built" /\ \E bsf \in SingleQubitOperators(code) : NewPauli(bsf)
    \/ pc = "ready" /\ \E index \in PlaquetteArgs(code) : Plaquette(index)
    \/ LogicalX
    \/ LogicalY
    \/ LogicalZ

SpecSyndrome == InitSyndrome /\ [][NextSyndrome]_vars

(***************************************************************************)
(* Properties of SpecSyndrome.                                             *)
(***************************************************************************)

\* The four corner sites SW, NW, NE, SE of a plaquette index.
Corners(index) ==
    {<<index[1], index[2]>>, <<index[1], index[2] + 1>>,
     <<index[1] + 1, index[2] + 1>>, <<index[1] + 1, index[2]>>}

HasOffGridCorner(c, index) ==
    \E i \in Corners(index) : ~is_in_site_bounds(c, i)

\* The operator plaquette(index) assigns to a corner site of the plaquette,
\* and I for every other site.
RoleOperator(c, index, i) ==
    IF c.variant = "XY"
    THEN (IF i \in Corners(index)
          THEN (IF (index[1] + index[2]) % 2 = 0 THEN "Y" ELSE "X")
          ELSE "I")
    ELSE LET y_prim == (site_bounds(c)[2] - 1) - index[2]
         IN  CornerOps(index, y_prim + 1 = index[1], y_prim - 1 = index[1], i)

\* C17: for both variants, plaquette(index) at an in-bounds plaquette some of
\* whose corners lie off the site grid composes its role operators into
\* exactly the corners that are sites, leaves every other site unchanged and
\* raises nothing.
C17_BoundaryPlaquetteInBoundsCorners ==
    (last.op = "plaquette" /\ is_in_plaquette_bounds(code, last.index)
        /\ HasOffGridCorner(code, last.index)) =>
        /\ \A i \in Sites(code) :
               Delta(prev, pauli, i) = RoleOperator(code, last.index, i)
        /\ {i \in Sites(code) : Delta(prev, pauli, i) # "I"}
               = {i \in Corners(last.index) : is_in_site_bounds(code, i)}
        /\ error = "none"
        /\ pc = "done"

C17_Witness ==
    /\ last.op = "plaquette"
    /\ code.variant = "XY"
    /\ is_in_plaquette_bounds(code, last.index)
    /\ Cardinality({i \in Corners(last.index) : is_in_site_bounds(code, i)}) = 2
    /\ Cardinality({i \in Sites(code) : Delta(prev, pauli, i) # "I"}) = 2
    /\ prev # Identity(code)
    /\ error = "none"

\* Whether all plaquette operators of a code pairwise commute, per code.
C18_PairwiseCommute ==
    [c \in Codes |->
        \A j, k \in 1..Len(stabilizers(c)) :
            bsp(stabilizers(c)[j], stabilizers(c)[k]) = 0] @@ <<>>

\* C18: for both variants, applying plaquette(index) to any operator leaves
\* its syndrome unchanged, and all in-bounds plaquette operators of the code
\* pairwise commute.
C18_PlaquettesKeepSyndrome ==
    last.op = "plaquette" =>
        /\ Syndrome(code, pauli) = Syndrome(code, prev)
        /\ C18_PairwiseCommute[code]

C18_Witness ==
    /\ last.op = "plaquette"
    /\ code = NewCode("XZZXdY", 5)
    /\ last.index = <<1, 1>>
    /\ Delta(prev, pauli, <<2, 2>>) = "Y"
    /\ \E k \in 1..Len(stabilizers(code)) : Syndrome(code, prev)[k] = 1
    /\ Syndrome(code, pauli) = Syndrome(code, prev)

\* C19: for both variants, applying logical_x(), logical_y() or logical_z()
\* to any operator leaves its syndrome unchanged.
C19_LogicalsKeepSyndrome ==
    last.op \in {"logical_x", "logical_y", "logical_z"} =>
        Syndrome(code, pauli) = Syndrome(code, prev)

(***************************************************************************)
(* Specification SpecDecoder: construct a decoder, then read its label.    *)
(***************************************************************************)

ChiArgs ==
    {None} \cup [type : {"int"}, value : (0 - MaxChi)..MaxChi]
           \cup [type : {"float", "str"}, value : {1}]

ModeArgs == {"c", "r", "a", "x"}

\* tol in tenths.
TolArgs ==
    {None} \cup [type : {"float"}, value : {0 - 1, 0, 1}] \cup [type : {"str"}, value : {1}]

ConstructDecoder(chi, mode, tol) ==
    /\ pc = "new"
    /\ decoder' = RMPSDecoder_init(chi, mode, tol).decoder
    /\ error' = RMPSDecoder_init(chi, mode, tol).raised
    /\ pc' = IF RMPSDecoder_init(chi, mode, tol).raised = "none" THEN "decoder" ELSE "failed"
    /\ call' = [fn |-> "__init__", args |-> <<chi, mode, tol>>, hit |-> FALSE]
    /\ UNCHANGED <<code, arg, pauli, prev, last, syndrome, calls, prob_dist, tn,
                   cache, ret, ncalls>>

Label ==
    /\ pc = "decoder"
    /\ ret' = label(decoder)
    /\ call' = [fn |-> "label", args |-> <<>>, hit |-> FALSE]
    /\ pc' = "labelled"
    /\ UNCHANGED <<code, arg, error, pauli, prev, last, syndrome, calls, prob_dist, tn,
                   decoder, cache, ncalls>>

NextDecoder ==
    \/ \E chi \in ChiArgs, mode \in ModeArgs, tol \in TolArgs : ConstructDecoder(chi, mode, tol)
    \/ Label

SpecDecoder == Init /\ [][NextDecoder]_vars

(***************************************************************************)
(* Properties of SpecDecoder.                                              *)
(***************************************************************************)

====
